---- MODULE Spec2Model ----
(***************************************************************************)
(* AI model listing record (AIModel), its fixed-layout codec               *)
(* (Pack::pack_into_slice / Pack::unpack_from_slice) and the creation      *)
(* handler create_ai_model of src/main.rs.                                 *)
(*                                                                         *)
(* Bytes are naturals 0..255.  A String is the sequence of its UTF-8       *)
(* bytes, a Vec<u8> / &[u8] a sequence of bytes, a Pubkey a sequence of    *)
(* PUBKEY_BYTES bytes.  A Rust panic (slice index out of range,            *)
(* copy_from_slice length mismatch) is the outcome "Panic"; whatever the   *)
(* function wrote into the borrowed buffer before panicking stays written. *)
(***************************************************************************)
EXTENDS Integers, Sequences, FiniteSets, TLC

VARIABLES
    ai_model_account,   \* accounts[0]: [owner, data, lamports]
    owner_account,      \* accounts[1]: [key, lamports]
    rent_minimum,       \* rent.minimum_balance(AIModel::LEN) of the rent sysvar
    result,             \* outcome of the last create_ai_model call
    call,               \* arguments of the last create_ai_model call
    created,            \* arguments of the call that returned Ok(()), if any
    codec               \* the codec harness: [stage, listing, buf, buf0, pack, unpack]

vars == <<ai_model_account, owner_account, rent_minimum, result, call, created, codec>>

---------------------------------------------------------------------------
(* Bounds of the model *)

\* largest lamport balance an account starts with
MaxLamports == 1
\* largest rent-exemption minimum the rent sysvar reports
MaxRentMin == 1
\* how many bytes past a capacity the enumerated texts, payloads and buffers go
MaxOver == 1

---------------------------------------------------------------------------
(* Values *)

PUBKEY_BYTES == 32

Zeros(n) == [i \in 1..n |-> 0]
Fill(n, b) == [i \in 1..n |-> b]

\* Pubkey::to_bytes: the 32 bytes of the key
Pubkey(b) == Fill(PUBKEY_BYTES, b)

PROGRAM_ID == Pubkey(1)
OTHER_PROGRAM == Pubkey(2)
PAYER_KEY == Pubkey(7)

\* AIModel::default()
AIModelDefault ==
    [is_initialized |-> FALSE, name |-> <<>>, description |-> <<>>,
     owner |-> Zeros(PUBKEY_BYTES), price |-> 0, model_file |-> <<>>]

\* u64::to_le_bytes, least significant byte first
RECURSIVE LeBytes(_, _)
LeBytes(v, n) == IF n = 0 THEN <<>> ELSE <<v % 256>> \o LeBytes(v \div 256, n - 1)

u64_to_le_bytes(v) == LeBytes(v, 8)

\* u64::from_le_bytes
RECURSIVE u64_from_le_bytes(_)
u64_from_le_bytes(b) ==
    IF Len(b) = 0 THEN 0 ELSE b[1] + 256 * u64_from_le_bytes(Tail(b))

IsCont(b) == b >= 128 /\ b <= 191

\* String::from_utf8(..).is_ok(): the bytes from index i on are well-formed UTF-8
RECURSIVE Utf8From(_, _)
Utf8From(b, i) ==
    IF i > Len(b) THEN TRUE
    ELSE LET c == b[i]
             has(k) == i + k <= Len(b)
         IN  IF c < 128 THEN Utf8From(b, i + 1)
             ELSE IF c >= 194 /\ c <= 223
                 THEN has(1) /\ IsCont(b[i + 1]) /\ Utf8From(b, i + 2)
             ELSE IF c >= 224 /\ c <= 239
                 THEN /\ has(2)
                      /\ IsCont(b[i + 1]) /\ IsCont(b[i + 2])
                      /\ (c = 224 => b[i + 1] >= 160)
                      /\ (c = 237 => b[i + 1] <= 159)
                      /\ Utf8From(b, i + 3)
             ELSE IF c >= 240 /\ c <= 244
                 THEN /\ has(3)
                      /\ IsCont(b[i + 1]) /\ IsCont(b[i + 2]) /\ IsCont(b[i + 3])
                      /\ (c = 240 => b[i + 1] >= 144)
                      /\ (c = 244 => b[i + 1] <= 143)
                      /\ Utf8From(b, i + 4)
             ELSE FALSE

from_utf8_ok(b) == Utf8From(b, 1)

---------------------------------------------------------------------------
(* Record codec *)

\* const LEN: usize
LEN == 1 + 32 + 32 + 8 + 8 + 1024

\* pack_into_slice: what `offset` is advanced by after the flag, name,
\* description, owner and price writes, and the width of the last slice
PackAdvance == <<1, 32, 32, 8, 8, 1024>>

\* unpack_from_slice: what `offset` is advanced by after each read, and the
\* width of the last slice
UnpackAdvance == <<1, 32, 32, 32, 8, 1024>>

FieldNames == <<"is_initialized", "name", "description", "owner", "price", "model_file">>

RECURSIVE SumTo(_, _)
SumTo(s, k) == IF k = 0 THEN 0 ELSE s[k] + SumTo(s, k - 1)

\* value of the cursor `offset` when field k is written / read
PackOffset(k) == SumTo(PackAdvance, k - 1)
UnpackOffset(k) == SumTo(UnpackAdvance, k - 1)

\* output[off..off+width].copy_from_slice(src) on a running pack state st:
\* the slice expression panics when off+width exceeds the buffer, the copy
\* panics when src is not exactly width bytes long
CopyFromSlice(st, k, src) ==
    LET off == PackOffset(k)
        width == PackAdvance[k]
        span == [field |-> FieldNames[k], off |-> off, width |-> width, src |-> Len(src)]
    IN  IF st.res = "Panic" THEN st
        ELSE IF off + width > Len(st.buf) \/ Len(src) # width
            THEN [res |-> "Panic", buf |-> st.buf, trace |-> Append(st.trace, span)]
        ELSE [res |-> "Ok",
              buf |-> SubSeq(st.buf, 1, off) \o src
                          \o SubSeq(st.buf, off + width + 1, Len(st.buf)),
              trace |-> Append(st.trace, span)]

\* output[offset] = self.is_initialized as u8
WriteFlag(self, output) ==
    LET span == [field |-> FieldNames[1], off |-> PackOffset(1), width |-> 1, src |-> 1]
    IN  IF Len(output) < 1
            THEN [res |-> "Panic", buf |-> output, trace |-> <<span>>]
        ELSE [res |-> "Ok",
              buf |-> [output EXCEPT ![1] = IF self.is_initialized THEN 1 ELSE 0],
              trace |-> <<span>>]

\* AIModel::pack_into_slice(&self, output) -> [res, buf, trace]
pack_into_slice(self, output) ==
    LET s1 == WriteFlag(self, output)
        s2 == CopyFromSlice(s1, 2, self.name)
        s3 == CopyFromSlice(s2, 3, self.description)
        s4 == CopyFromSlice(s3, 4, self.owner)
        s5 == CopyFromSlice(s4, 5, u64_to_le_bytes(self.price))
    IN  CopyFromSlice(s5, 6, self.model_file)

\* input[off..off+width] of unpack_from_slice: [ok, bytes]
ReadSlice(input, k) ==
    LET off == UnpackOffset(k)
        width == UnpackAdvance[k]
    IN  IF off + width > Len(input) THEN [ok |-> FALSE, bytes |-> <<>>]
        ELSE [ok |-> TRUE, bytes |-> SubSeq(input, off + 1, off + width)]

UnpackSpan(k) ==
    [field |-> FieldNames[k], off |-> UnpackOffset(k), width |-> UnpackAdvance[k]]

UnpackTrace(n) == [k \in 1..n |-> UnpackSpan(k)]

UnpackOutcome(res, value, n) == [res |-> res, value |-> value, trace |-> UnpackTrace(n)]

\* AIModel::unpack_from_slice(input) -> [res, value, trace]
unpack_from_slice(input) ==
    LET name == ReadSlice(input, 2)
        description == ReadSlice(input, 3)
        owner == ReadSlice(input, 4)
        price == ReadSlice(input, 5)
        model_file == ReadSlice(input, 6)
    IN  IF Len(input) = 0 THEN UnpackOutcome("InvalidAccountData", AIModelDefault, 1)
        ELSE IF ~name.ok THEN UnpackOutcome("Panic", AIModelDefault, 2)
        ELSE IF ~from_utf8_ok(name.bytes)
            THEN UnpackOutcome("InvalidAccountData", AIModelDefault, 2)
        ELSE IF ~description.ok THEN UnpackOutcome("Panic", AIModelDefault, 3)
        ELSE IF ~from_utf8_ok(description.bytes)
            THEN UnpackOutcome("InvalidAccountData", AIModelDefault, 3)
        ELSE IF ~owner.ok THEN UnpackOutcome("Panic", AIModelDefault, 4)
        ELSE IF ~price.ok THEN UnpackOutcome("Panic", AIModelDefault, 5)
        ELSE IF ~model_file.ok THEN UnpackOutcome("Panic", AIModelDefault, 6)
        ELSE UnpackOutcome("Ok",
                 [is_initialized |-> input[1] # 0,
                  name |-> name.bytes,
                  description |-> description.bytes,
                  owner |-> owner.bytes,
                  price |-> u64_from_le_bytes(price.bytes),
                  model_file |-> model_file.bytes], 6)

---------------------------------------------------------------------------
(* create_ai_model *)

\* mutant: the flag byte is never consulted
is_uninitialized_unchecked(acct) == TRUE

\* ai_model_account.is_uninitialized(): the record's flag byte is clear
is_uninitialized(acct) == Len(acct.data) = 0 \/ acct.data[1] = 0

\* rent.is_exempt(lamports, data_len)
is_exempt(lamports, minimum) == lamports >= minimum

\* mutant: the size check placed before the controlling-program check
PrecheckSizeFirst(program_id, acct, payer, minimum, a) ==
    IF a.n_accounts < 3 THEN "NotEnoughAccountKeys"
    ELSE IF Len(acct.data) # LEN THEN "InvalidAccountDataSize"
    ELSE IF acct.owner # program_id THEN "IncorrectProgramId"
    ELSE IF ~is_uninitialized(acct) THEN "AccountAlreadyInitialized"
    ELSE IF ~a.rent_ok THEN "InvalidArgument"
    ELSE IF ~is_exempt(acct.lamports, minimum) THEN "AccountNotRentExempt"
    ELSE IF payer.lamports < minimum THEN "InsufficientFunds"
    ELSE "Pass"

\* The checks of create_ai_model that return Err before anything is written,
\* in the order of the code; "Pass" when none returns.
Precheck(program_id, acct, payer, minimum, a) ==
    IF a.n_accounts < 3 THEN "NotEnoughAccountKeys"
    ELSE IF acct.owner # program_id THEN "IncorrectProgramId"
    ELSE IF Len(acct.data) # LEN THEN "InvalidAccountDataSize"
    ELSE IF ~is_uninitialized(acct) THEN "AccountAlreadyInitialized"
    ELSE IF ~a.rent_ok THEN "InvalidArgument"
    ELSE IF ~is_exempt(acct.lamports, minimum) THEN "AccountNotRentExempt"
    ELSE IF payer.lamports < minimum THEN "InsufficientFunds"
    ELSE "Pass"

\* the AIModel the handler builds from its arguments
NewModel(payer, a) ==
    [is_initialized |-> TRUE, name |-> a.name, description |-> a.description,
     owner |-> payer.key, price |-> a.price, model_file |-> a.model_file]

Outcome(res, data, slot_lamports, payer_lamports) ==
    [result |-> res, data |-> data,
     slot_lamports |-> slot_lamports, payer_lamports |-> payer_lamports]

\* mutant: the record is packed into the account before the payer's funds
\* are checked
create_ai_model_pack_first(program_id, acct, payer, minimum, a) ==
    LET pre == Precheck(program_id, acct, payer, minimum, a)
        packed == pack_into_slice(NewModel(payer, a), acct.data)
    IN  IF pre = "InsufficientFunds"
            THEN Outcome(pre, packed.buf, acct.lamports, payer.lamports)
        ELSE IF pre # "Pass" THEN Outcome(pre, acct.data, acct.lamports, payer.lamports)
        ELSE IF packed.res = "Panic"
            THEN Outcome("Panic", packed.buf, acct.lamports, payer.lamports)
        ELSE Outcome("Ok", packed.buf, acct.lamports + minimum, payer.lamports - minimum)

\* create_ai_model(program_id, accounts, name, description, price, model_file):
\* the result and what the two accounts hold when the call ends.  Balances
\* of the model stay far below 2^64 and the payer check precedes the debit,
\* so the u64 subtraction and addition do not wrap here.
create_ai_model(program_id, acct, payer, minimum, a) ==
    LET pre == Precheck(program_id, acct, payer, minimum, a)
        packed == pack_into_slice(NewModel(payer, a), acct.data)
    IN  IF pre # "Pass" THEN Outcome(pre, acct.data, acct.lamports, payer.lamports)
        ELSE IF packed.res = "Panic"
            THEN Outcome("Panic", packed.buf, acct.lamports, payer.lamports)
        ELSE Outcome("Ok", packed.buf, acct.lamports + minimum, payer.lamports - minimum)

---------------------------------------------------------------------------
(* Inputs *)

NAME_CAP == PackAdvance[2]
DESC_CAP == PackAdvance[3]
FILE_CAP == PackAdvance[6]

Names == {<<109>>} \cup {Fill(n, 97) : n \in NAME_CAP..(NAME_CAP + MaxOver)}
Descriptions == {<<100>>} \cup {Fill(n, 98) : n \in DESC_CAP..(DESC_CAP + MaxOver)}
Prices == {0, 100}
Files == {Fill(n, 5) : n \in FILE_CAP..(FILE_CAP + MaxOver)}

\* payloads of a call
Payloads ==
    [name : Names, description : Descriptions, price : Prices,
     model_file : {Fill(FILE_CAP, 5)}]

WithAccounts(p, n, ok) ==
    [n_accounts |-> n, rent_ok |-> ok, name |-> p.name,
     description |-> p.description, price |-> p.price, model_file |-> p.model_file]

ExamplePayload ==
    [name |-> <<109>>, description |-> <<100>>, price |-> 100,
     model_file |-> Fill(FILE_CAP, 5)]

\* Arguments of a call: every payload with the three accounts the handler
\* reads, and one payload with an account missing or with an account that is
\* not the rent sysvar (the handler returns before it looks at the payload).
CreateArgs ==
    {WithAccounts(p, 3, TRUE) : p \in Payloads}
        \cup {WithAccounts(ExamplePayload, n, ok) : n \in {2, 3}, ok \in BOOLEAN}

NoCall == [n_accounts |-> 0]

SlotLens == (LEN - MaxOver)..LEN

\* account data the host hands over: never written, or with the flag byte set
SlotData == {Zeros(n) : n \in SlotLens} \cup {[Zeros(n) EXCEPT ![1] = 1] : n \in SlotLens}

CodecIdle == [stage |-> "idle"]

---------------------------------------------------------------------------
(* The creation transition *)

Init ==
    /\ ai_model_account \in
          [owner : {PROGRAM_ID, OTHER_PROGRAM}, data : SlotData, lamports : 0..MaxLamports]
    /\ owner_account \in [key : {PAYER_KEY}, lamports : 0..MaxLamports]
    /\ rent_minimum \in 0..MaxRentMin
    /\ result = "None"
    /\ call = NoCall
    /\ created = NoCall
    /\ codec = CodecIdle

Create(a) ==
    LET out == create_ai_model(PROGRAM_ID, ai_model_account, owner_account, rent_minimum, a)
    IN  /\ ai_model_account' =
              [ai_model_account EXCEPT !.data = out.data, !.lamports = out.slot_lamports]
        /\ owner_account' = [owner_account EXCEPT !.lamports = out.payer_lamports]
        /\ result' = out.result
        /\ call' = a
        /\ created' = IF out.result = "Ok" THEN a ELSE created
        /\ UNCHANGED <<rent_minimum, codec>>

Next == \E a \in CreateArgs : Create(a)

Spec == Init /\ [][Next]_vars

\* every slot starts as never-written storage
InitFresh ==
    /\ Init
    /\ ai_model_account.data = Zeros(Len(ai_model_account.data))

SpecFresh == InitFresh /\ [][Next]_vars

---------------------------------------------------------------------------
(* The codec harness: pack a listing into a buffer, unpack a buffer *)

UNPACK_LEN == SumTo(UnpackAdvance, 6)

CodecNames == {<<>>} \cup Names
CodecDescriptions == Descriptions
CodecFiles == {<<>>} \cup Files

Listings ==
    [is_initialized : BOOLEAN, name : CodecNames, description : CodecDescriptions,
     owner : {PAYER_KEY}, price : Prices, model_file : CodecFiles]

\* the fields of a listing laid end to end, each at its own width
Image(l) ==
    <<IF l.is_initialized THEN 1 ELSE 0>> \o l.name \o l.description \o l.owner
        \o u64_to_le_bytes(l.price) \o l.model_file

BufLens == {0, 1} \cup ((LEN - MaxOver)..LEN) \cup {UNPACK_LEN}

\* buffers: zeroed, with a byte that starts no UTF-8 sequence in the name
\* field, and the image of a listing whose fields are at capacity
Buffers ==
    {Zeros(n) : n \in BufLens}
        \cup {[Zeros(n) EXCEPT ![2] = 255] : n \in BufLens \ {0, 1}}
        \cup {Image(l) : l \in {x \in Listings :
                  /\ Len(x.name) = NAME_CAP /\ Len(x.description) = DESC_CAP
                  /\ Len(x.model_file) = FILE_CAP /\ x.is_initialized}}

NotRun == [res |-> "None"]

InitCodec ==
    /\ ai_model_account = [owner |-> PROGRAM_ID, data |-> <<>>, lamports |-> 0]
    /\ owner_account = [key |-> PAYER_KEY, lamports |-> 0]
    /\ rent_minimum = 0
    /\ result = "None"
    /\ call = NoCall
    /\ created = NoCall
    /\ \E l \in Listings, b \in Buffers :
          codec = [stage |-> "init", listing |-> l, buf |-> b, buf0 |-> b,
                   pack |-> NotRun, unpack |-> NotRun]

PackStep ==
    /\ codec.stage = "init"
    /\ LET out == pack_into_slice(codec.listing, codec.buf)
       IN  codec' = [codec EXCEPT !.stage = "packed", !.buf = out.buf,
                                  !.pack = [res |-> out.res, trace |-> out.trace]]
    /\ UNCHANGED <<ai_model_account, owner_account, rent_minimum, result, call, created>>

UnpackStep ==
    /\ codec.stage \in {"init", "packed"}
    /\ codec' = [codec EXCEPT !.stage = "unpacked",
                              !.unpack = unpack_from_slice(codec.buf)]
    /\ UNCHANGED <<ai_model_account, owner_account, rent_minimum, result, call, created>>

NextCodec == PackStep \/ UnpackStep

SpecCodec == InitCodec /\ [][NextCodec]_vars

---------------------------------------------------------------------------
(* Properties of the creation transition *)

Slot == ai_model_account
Payer == owner_account

FlagSet(data) == Len(data) >= 1 /\ data[1] # 0

\* the errors create_ai_model returns as Err(..)
PreconditionErrors ==
    {"IncorrectProgramId", "InvalidAccountDataSize", "AccountAlreadyInitialized",
     "AccountNotRentExempt", "InsufficientFunds"}
ReturnedErrors == PreconditionErrors \cup {"NotEnoughAccountKeys", "InvalidArgument"}

AccountsUntouched ==
    /\ ai_model_account'.data = ai_model_account.data
    /\ ai_model_account'.lamports = ai_model_account.lamports
    /\ owner_account'.lamports = owner_account.lamports

\* C1: a call that returns a failure leaves the slot's bytes, the slot's
\* balance and the payer's balance as they were before the call.
C1_FailureMutatesNothing ==
    [][result' \in ReturnedErrors => AccountsUntouched]_vars

C1_Witness ==
    /\ result = "InsufficientFunds"
    /\ call.n_accounts = 3
    /\ Payer.lamports < rent_minimum

\* the five preconditions, as violated by the state a call starts in
WrongProgram == Slot.owner # PROGRAM_ID
WrongSize == Len(Slot.data) # LEN
Initialized == FlagSet(Slot.data)
SlotNotExempt == Slot.lamports < rent_minimum
PayerShort == Payer.lamports < rent_minimum

\* C2: the failure reported is that of the earliest violated precondition in
\* the order program, size, uninitialized, slot rent-exempt, payer funds
\* (for a call that passes its three accounts; the two balance checks need a
\* readable rent sysvar).
C2_EarliestViolatedCheckReported ==
    [][call'.n_accounts = 3 =>
        /\ (WrongProgram => result' = "IncorrectProgramId")
        /\ ((~WrongProgram /\ WrongSize) => result' = "InvalidAccountDataSize")
        /\ ((~WrongProgram /\ ~WrongSize /\ Initialized)
              => result' = "AccountAlreadyInitialized")
        /\ ((~WrongProgram /\ ~WrongSize /\ ~Initialized /\ call'.rent_ok
                /\ SlotNotExempt)
              => result' = "AccountNotRentExempt")
        /\ ((~WrongProgram /\ ~WrongSize /\ ~Initialized /\ call'.rent_ok
                /\ ~SlotNotExempt /\ PayerShort)
              => result' = "InsufficientFunds")
        /\ ((~WrongProgram /\ ~WrongSize /\ ~Initialized /\ call'.rent_ok
                /\ ~SlotNotExempt /\ ~PayerShort)
              => result' \notin ReturnedErrors)
      ]_vars

\* wrong program, wrong size and already initialized at once
C2_Witness ==
    /\ result = "IncorrectProgramId"
    /\ call.n_accounts = 3
    /\ WrongProgram /\ WrongSize /\ Initialized

\* the record a well-formed slot decodes to
Decoded(data) == unpack_from_slice(data)

\* C3: from a program-owned slot of LEN zero bytes with balance 0 and a payer
\* holding exactly the rent minimum, create succeeds; the slot then decodes
\* to initialized = true, the supplied price and the payer as owner, the
\* payer's balance is 0 and the slot's balance is the rent minimum.
C3_EndToEnd ==
    [][(/\ call'.n_accounts = 3 /\ call'.rent_ok
        /\ Len(call'.name) <= NAME_CAP /\ Len(call'.description) <= DESC_CAP
        /\ Slot.owner = PROGRAM_ID /\ Slot.data = Zeros(LEN)
        /\ Slot.lamports = 0 /\ Payer.lamports = rent_minimum)
       => /\ result' = "Ok"
          /\ Decoded(ai_model_account'.data).res = "Ok"
          /\ Decoded(ai_model_account'.data).value.is_initialized
          /\ Decoded(ai_model_account'.data).value.price = call'.price
          /\ Decoded(ai_model_account'.data).value.owner = Payer.key
          /\ owner_account'.lamports = 0
          /\ ai_model_account'.lamports = rent_minimum
      ]_vars

Field(data, off, width) == SubSeq(data, off + 1, off + width)

\* C9: a slot that started as zero bytes is either still all zero, or has the
\* flag set and holds in every field what one successful call wrote (name,
\* description, price, payload, and that call's payer as owner).
C9_ZeroOrFullyWritten ==
    \/ /\ created = NoCall
       /\ Slot.data = Zeros(Len(Slot.data))
    \/ /\ created # NoCall
       /\ FlagSet(Slot.data)
       /\ Decoded(Slot.data).res = "Ok"
       /\ Decoded(Slot.data).value =
             [is_initialized |-> TRUE, name |-> created.name,
              description |-> created.description, owner |-> Payer.key,
              price |-> created.price, model_file |-> created.model_file]

---------------------------------------------------------------------------
(* Properties of the codec *)

Packed == codec.stage # "init" /\ codec.pack.res # "None"
Unpacked == codec.stage = "unpacked"

FitsCapacity(l) ==
    /\ Len(l.name) <= NAME_CAP
    /\ Len(l.description) <= DESC_CAP
    /\ Len(l.model_file) <= FILE_CAP

\* C5: for a listing whose name, description and payload fit their
\* capacities, encode succeeds on a buffer of the record size and decoding
\* the encoded buffer returns the listing, equal in every field.
C5_RoundTrip ==
    (Packed /\ FitsCapacity(codec.listing) /\ Len(codec.buf0) = LEN)
        => /\ codec.pack.res = "Ok"
           /\ Unpacked => /\ codec.unpack.res = "Ok"
                          /\ codec.unpack.value = codec.listing

AtCapacity(l) ==
    /\ Len(l.name) = NAME_CAP
    /\ Len(l.description) = DESC_CAP
    /\ Len(l.model_file) = FILE_CAP

OneOver(l) ==
    \/ Len(l.name) = NAME_CAP + 1
    \/ Len(l.description) = DESC_CAP + 1

\* C6: encoding a listing whose name and description are exactly at capacity
\* succeeds; encoding one whose name or description is one byte over is
\* rejected with the buffer left byte-for-byte unchanged.
C6_CapacityBoundary ==
    (Packed /\ Len(codec.buf0) = LEN)
        => /\ AtCapacity(codec.listing) => codec.pack.res = "Ok"
           /\ OneOver(codec.listing) =>
                 /\ codec.pack.res # "Ok"
                 /\ codec.buf = codec.buf0

RECORD_SIZE == 1 + NAME_CAP + DESC_CAP + PUBKEY_BYTES + 8 + FILE_CAP

\* C7: every field is written by encode at the byte range decode reads it
\* from, the owner range is 32 bytes wide and the cursor advances by 32 past
\* it, and the ranges tile [0, RECORD_SIZE), the declared record size.
C7_LayoutConsistent ==
    (Packed /\ Unpacked /\ AtCapacity(codec.listing) /\ Len(codec.buf0) >= LEN)
        => /\ \A k \in DOMAIN codec.pack.trace \cap DOMAIN codec.unpack.trace :
                 /\ codec.pack.trace[k].off = codec.unpack.trace[k].off
                 /\ codec.pack.trace[k].width = codec.unpack.trace[k].width
           /\ \A k \in DOMAIN codec.pack.trace :
                 /\ codec.pack.trace[k].field = "owner"
                       => codec.pack.trace[k].width = PUBKEY_BYTES
                 /\ (k > 1 /\ codec.pack.trace[k - 1].field = "owner")
                       => codec.pack.trace[k].off
                             = codec.pack.trace[k - 1].off + PUBKEY_BYTES
                 /\ k > 1 => codec.pack.trace[k].off
                               = codec.pack.trace[k - 1].off + codec.pack.trace[k - 1].width
           /\ LEN = RECORD_SIZE

\* C8: decode never aborts: it returns a listing or InvalidAccountData for a
\* buffer of any length; a buffer shorter than the record size, the empty
\* one included, yields InvalidAccountData; a buffer of exactly the record
\* size is decoded or rejected for its text only.
C8_DecodeTotal ==
    Unpacked
        => /\ codec.unpack.res \in {"Ok", "InvalidAccountData"}
           /\ Len(codec.buf) < LEN => codec.unpack.res = "InvalidAccountData"
           /\ Len(codec.buf) = LEN =>
                 \/ codec.unpack.res = "Ok"
                 \/ ~from_utf8_ok(Field(codec.buf, 1, NAME_CAP))
                 \/ ~from_utf8_ok(Field(codec.buf, 1 + NAME_CAP, DESC_CAP))

====
